---- MODULE Spec2Model ----
(***************************************************************************)
(* Workflow run and node-execution life cycle of                           *)
(* api/core/app/task_pipeline/workflow_cycle_manage.py                     *)
(* (class WorkflowCycleManage).                                            *)
(*                                                                         *)
(* The two tables workflow_runs and workflow_node_executions are shared by *)
(* every invocation; each invocation owns one Task State.  A handler is    *)
(* one atomic step, except _handle_workflow_start: its aggregate query and *)
(* its insert are two database statements of one session, and statements   *)
(* of other sessions may run between them.                                 *)
(*                                                                         *)
(* Abstractions: ids are the row positions; time stamps are "t" when set;  *)
(* a dict of outputs has the keys text and usage, each possibly absent;    *)
(* inputs and process_data of a node execution are stored exactly as its   *)
(* outputs are and are left out; elapsed_time is left out.                 *)
(*                                                                         *)
(* The file discovery of the finish messages is a pure function of an      *)
(* outputs mapping; it is applied to the mapping outputs_dict, and its     *)
(* result is kept in files.                                                *)
(***************************************************************************)
EXTENDS Naturals, Sequences, FiniteSets, TLC

VARIABLES
    workflow_runs,            \* table workflow_runs: Seq of rows, id = position
    workflow_node_executions, \* table workflow_node_executions, id = position
    task_state,               \* invocation -> its Task State
    pc,                       \* invocation -> "init" | "read" | "running"
    max_sequence,             \* invocation -> local max_sequence of _init_workflow_run
    result,                   \* what the last handler call returned or raised
    hist,                     \* invocation -> record of the events processed so far
    generate_entity,          \* invocation -> its user inputs and system variables
    outputs_dict,             \* the outputs mapping handed to the file discovery
    files,                    \* what the file discovery returned for outputs_dict
    response                  \* the stream response built last

vars == <<workflow_runs, workflow_node_executions, task_state, pc, max_sequence, result, hist,
          generate_entity, outputs_dict, files, response>>

----------------------------------------------------------------------------
(* Bounds of the model *)

\* events processed after the workflow start, all invocations together: NodeStarted
\* events that found the run, finish events that found their bookkeeping entry and
\* terminal events that found the run
MaxEvents == 5

----------------------------------------------------------------------------
(* Values *)

Null == "null"
Absent == "absent"

Invocations == {"i1", "i2"}

\* self._workflow of an invocation: both invocations run the same workflow
Workflow == [tenant_id |-> "t1", app_id |-> "a1"]
\* self._user: an Account for one invocation, an EndUser for the other
User(i) ==
    IF i = "i1" THEN [class |-> "Account", id |-> "account-1"]
    ELSE [class |-> "EndUser", id |-> "end-user-1"]

NodeIds == {"A", "B"}
LLM == "llm"
NodeTypeOf(n) == IF n = "A" THEN LLM ELSE "code"

RUNNING == "running"
SUCCEEDED == "succeeded"
FAILED == "failed"
STOPPED == "stopped"

Errors == {"x"}
TokenValues == {5}

\* a dict of outputs; the empty dict (and None, which every branch treats alike)
EmptyDict == [text |-> Absent, usage |-> Absent]
Dicts ==
    { EmptyDict,
      [text |-> "a", usage |-> Absent],
      [text |-> "a", usage |-> "u1"],
      [text |-> "b", usage |-> "u2"] }

\* execution_metadata: None or {}, a dict without total_tokens, a dict with it
NoneMeta == [keys |-> "none", total_tokens |-> 0]
Metadatas ==
    { NoneMeta, [keys |-> "other", total_tokens |-> 0] }
    \cup { [keys |-> "tokens", total_tokens |-> n] : n \in TokenValues \cup {0} }

\* user inputs and system variables of an invocation.  A value is a string; the list of
\* file objects handed over as system variable files is NativeFiles, and
\* SerialisedFiles is the list of their to_dict() forms
NativeFiles == "[FileVar(f1)]"
SerialisedFiles == "[{__variant: FileVar, id: f1}]"
UserKeys == {"name", "sys.query"}
SystemKeys == {"query", "files"}
UserInputs == UNION { [K -> {"u"}] : K \in SUBSET UserKeys }
SystemInputs ==
    { [ k \in K |-> IF k = "files" THEN NativeFiles ELSE "s" ] : K \in SUBSET SystemKeys }
Entities == [ inputs : UserInputs, system_variables : SystemInputs ]
DefaultEntity ==
    [ inputs |-> [ k \in {"name"} |-> "u" ], system_variables |-> [ k \in {"query"} |-> "s" ] ]
\* f'sys.{key.value}'
sys_key(key) == "sys." \o key
\* WorkflowEngineManager.handle_special_values: file objects become their to_dict() form
handle_special_values(d) ==
    [ k \in DOMAIN d |-> IF d[k] = NativeFiles THEN SerialisedFiles ELSE d[k] ]

\* no stream response built yet; the fields a message lacks keep these values
NoResponse ==
    [ message |-> Null, raised |-> FALSE, id |-> 0, workflow_run_id |-> 0,
      sequence_number |-> 0, status |-> Null, error |-> Null,
      outputs |-> [none |-> TRUE, items |-> <<>>],
      total_tokens |-> 0, total_steps |-> 0,
      node_id |-> Null, node_type |-> Null, index |-> 0, predecessor_node_id |-> Null,
      files |-> <<>> ]

\* before the file discovery has been called
NotFetched == [fetched |-> FALSE, list |-> <<>>]

\* values of an outputs mapping.  type is the Python type; of a dict, variant is the value
\* under the key __variant (Absent without the key), id stands for its other scalar
\* entries and inside holds the values under its other keys; of a list, inside holds the
\* elements; of a str, id is the text; of a FileVar object, id names the file.
Value(type, variant, id, inside) ==
    [type |-> type, variant |-> variant, id |-> id, inside |-> inside]
None == Value("none", Absent, Null, <<>>)
Str(text) == Value("str", Absent, text, <<>>)
EmptyDictValue == Value("dict", Absent, Null, <<>>)
FileDict(id) == Value("dict", "FileVar", id, <<>>)
OtherVariantDict == Value("dict", "Other", "f1", <<>>)
DictHolding(v) == Value("dict", Absent, Null, <<v>>)
FileVar(id) == Value("FileVar", Absent, id, <<>>)
List(items) == Value("list", Absent, Null, items)

MaxItems == 2
SeqsUpTo(S, n) == UNION { [1..m -> S] : m \in 0..n }
Scalars == { None, Str("hello"), EmptyDictValue, OtherVariantDict, DictHolding(Str("hello")) }
FileValues == { FileDict("f1"), FileDict("f2"), FileVar("f3") }
\* elements of a list value: scalars, files, and a file one level further down
ListItems ==
    Scalars \cup FileValues \cup { List(<<FileDict("f1")>>), DictHolding(FileDict("f1")) }
OutputValues ==
    Scalars \cup FileValues \cup { DictHolding(FileDict("f1")) }
        \cup { List(items) : items \in SeqsUpTo(ListItems, MaxItems) }
\* the values under a second key
SecondValues ==
    { Str("hello"), FileDict("f2"), FileVar("f3"), List(<<FileDict("f1"), FileDict("f2")>>) }
\* an outputs mapping: None, or the (key, value) pairs in iteration order
OutputsDicts ==
    { [none |-> TRUE, items |-> <<>>] }
        \cup { [none |-> FALSE, items |-> <<>>] }
        \cup { [none |-> FALSE, items |-> << <<"k1", v>> >>] : v \in OutputValues }
        \cup { [none |-> FALSE, items |-> << <<"k1", v>>, <<"k2", w>> >>] :
                v \in OutputValues, w \in SecondValues }

\* node_data.title, node_run_index and predecessor_node_id of the NodeStarted event of a
\* node: the graph runs A first and B after A
TitleOf(n) == IF n = "A" THEN "LLM A" ELSE "Code B"
RunIndexOf(n) == IF n = "A" THEN 1 ELSE 2
PredecessorOf(n) == IF n = "A" THEN Null ELSE "A"
QueueNodeStartedEvent ==
    { [node_id |-> n, node_type |-> NodeTypeOf(n), title |-> TitleOf(n),
       node_run_index |-> RunIndexOf(n), predecessor_node_id |-> PredecessorOf(n)] :
      n \in NodeIds }
QueueNodeSucceededEvent ==
    { [kind |-> "succeeded", node_id |-> n, outputs |-> o,
       execution_metadata |-> m, error |-> Null] :
      n \in NodeIds, o \in Dicts, m \in Metadatas }
QueueNodeFailedEvent ==
    { [kind |-> "failed", node_id |-> n, outputs |-> o,
       execution_metadata |-> NoneMeta, error |-> e] :
      n \in NodeIds, o \in {EmptyDict, [text |-> "a", usage |-> Absent]}, e \in {"x"} }
QueueStopEvent == { [kind |-> "stop", error |-> Null] }
QueueWorkflowSucceededEvent == { [kind |-> "succeeded", error |-> Null] }
QueueWorkflowFailedEvent == { [kind |-> "failed", error |-> e] : e \in Errors }

----------------------------------------------------------------------------
(* Serialised columns *)

\* json.dumps of a mapping with any keys: the column holds the key/value pairs
json_dumps_mapping(d) == <<"json", { <<k, d[k]>> : k \in DOMAIN d }>>
\* WorkflowRun.inputs_dict: json.loads of the inputs column
inputs_dict(workflow_run) ==
    LET pairs == workflow_run.inputs[2]
    IN  [ k \in { p[1] : p \in pairs } |-> (CHOOSE p \in pairs : p[1] = k)[2] ]

NullBlob == <<>>
\* json.dumps(d)
json_dumps(d) == <<"json", d.text, d.usage>>
\* json.loads(b)
json_loads(b) == [text |-> b[2], usage |-> b[3]]
\* python truth of a dict
Truthy(d) == d # EmptyDict
\* json.dumps(outputs) if outputs else None
DumpsOrNone(d) == IF Truthy(d) THEN json_dumps(d) ELSE NullBlob

----------------------------------------------------------------------------
(* Task State *)

NoInfo == [workflow_node_execution_id |-> 0, node_type |-> Absent]

InitTaskState ==
    [ start_at |-> Null,
      workflow_run_id |-> 0,
      total_tokens |-> 0,
      total_steps |-> 0,
      ran_node_execution_infos |-> [n \in NodeIds |-> NoInfo],
      latest_node_execution_info |-> NoInfo,
      usage |-> Absent ]

\* an event as the history keeps it: the handler, the event's kind and its fields
\* (of execution_metadata, the total_tokens it reports)
NoEvent ==
    [op |-> Null, kind |-> Null, node_id |-> Null, outputs |-> EmptyDict,
     tokens |-> 0, error |-> Null]
node_started_event(event) ==
    [NoEvent EXCEPT !.op = "node_start", !.node_id = event.node_id]
node_finished_event(event) ==
    [NoEvent EXCEPT !.op = "node_finished", !.kind = event.kind, !.node_id = event.node_id,
                    !.outputs = event.outputs,
                    !.tokens = IF event.kind = "succeeded" /\ event.execution_metadata.keys = "tokens"
                               THEN event.execution_metadata.total_tokens ELSE 0,
                    !.error = event.error]
workflow_finished_event(event) ==
    [NoEvent EXCEPT !.op = "workflow_finished", !.kind = event.kind, !.error = event.error]

\* the example of the specification's section 8: NodeStarted(A), NodeSucceeded(A,
\* total_tokens 5), NodeStarted(B), NodeFailed(B, "x"), WorkflowFailed("x")
Scenario ==
    << [NoEvent EXCEPT !.op = "node_start", !.node_id = "A"],
       [NoEvent EXCEPT !.op = "node_finished", !.kind = "succeeded", !.node_id = "A", !.tokens = 5],
       [NoEvent EXCEPT !.op = "node_start", !.node_id = "B"],
       [NoEvent EXCEPT !.op = "node_finished", !.kind = "failed", !.node_id = "B", !.error = "x"],
       [NoEvent EXCEPT !.op = "workflow_finished", !.kind = "failed", !.error = "x"] >>

\* the history after one more processed event e
observe(h, e) ==
    [ h EXCEPT
        !.last_event = e,
        !.scenario =
            IF @.on /\ @.step < Len(Scenario)
                    /\ [e EXCEPT !.outputs = EmptyDict] = Scenario[@.step + 1]
            THEN [on |-> TRUE, step |-> @.step + 1]
            ELSE [on |-> FALSE, step |-> 0] ]

InitHist ==
    [ node_started |-> 0,       \* NodeStarted events processed
      node_finished |-> 0,      \* NodeSucceeded / NodeFailed events processed
      token_sum |-> 0,          \* sum of the total_tokens the NodeSucceeded events reported
      last_finished |-> 0,      \* row of the latest processed finish event
      last_llm |-> [seen |-> FALSE, outputs |-> EmptyDict],
      terminal |-> 0,           \* terminal events that found the run
      last_event |-> NoEvent,   \* the event processed last
      scenario |-> [on |-> TRUE, step |-> 0],   \* how far the events follow Scenario
      interleaved |-> FALSE ]   \* a run was inserted between the query and the insert

\* a run of another app, finished before the invocations of the model begin
PriorRun ==
    [ tenant_id |-> "t1", app_id |-> "a2", sequence_number |-> 1,
      inputs |-> json_dumps_mapping(<<>>),
      created_by_role |-> "account", created_by |-> "account-0",
      status |-> SUCCEEDED, outputs |-> NullBlob, error |-> Null,
      total_tokens |-> 0, total_steps |-> 0, finished_at |-> "t" ]

InitRepository ==
    /\ workflow_runs = <<PriorRun>>
    /\ workflow_node_executions = <<>>
    /\ task_state = [i \in Invocations |-> InitTaskState]
    /\ pc = [i \in Invocations |-> "init"]
    /\ max_sequence = [i \in Invocations |-> 0]
    /\ result = [inv |-> Null, op |-> Null, kind |-> Null, ret |-> Null]
    /\ hist = [i \in Invocations |-> InitHist]

\* every invocation with the same user inputs and system variables; no file discovery
Init ==
    /\ InitRepository
    /\ generate_entity = [i \in Invocations |-> DefaultEntity]
    /\ outputs_dict = [none |-> TRUE, items |-> <<>>]
    /\ files = NotFetched
    /\ response = NoResponse

----------------------------------------------------------------------------
(* Repository queries *)

SetMax(S) == IF S = {} THEN 0 ELSE CHOOSE m \in S : \A x \in S : x <= m

\* as query_max_sequence, over the rows of every (tenant, app)
query_max_sequence_unfiltered(workflow) ==
    SetMax({ workflow_runs[k].sequence_number : k \in DOMAIN workflow_runs })

\* db.session.query(db.func.max(WorkflowRun.sequence_number))
\*   .filter(tenant_id == ...).filter(app_id == ...).scalar() or 0
query_max_sequence(workflow) ==
    SetMax({ workflow_runs[k].sequence_number :
             k \in { j \in DOMAIN workflow_runs :
                     /\ workflow_runs[j].tenant_id = workflow.tenant_id
                     /\ workflow_runs[j].app_id = workflow.app_id } })

\* db.session.query(WorkflowRun).filter(WorkflowRun.id == id).first() is not None
run_exists(id) == id \in DOMAIN workflow_runs

----------------------------------------------------------------------------
(* Row constructors and row updates *)

\* WorkflowRun(...) of _init_workflow_run
WorkflowRun(workflow, new_sequence_number, inputs, user) ==
    [ tenant_id |-> workflow.tenant_id, app_id |-> workflow.app_id,
      sequence_number |-> new_sequence_number,
      inputs |-> json_dumps_mapping(inputs),
      created_by_role |-> IF user.class = "Account" THEN "account" ELSE "end_user",
      created_by |-> user.id,
      status |-> RUNNING, outputs |-> NullBlob, error |-> Null,
      total_tokens |-> 0, total_steps |-> 0, finished_at |-> Null ]

\* as _workflow_run_success, total_steps not stored
_workflow_run_success_no_steps(workflow_run, total_tokens, total_steps, outputs) ==
    [ workflow_run EXCEPT
        !.status = SUCCEEDED,
        !.outputs = outputs,
        !.total_tokens = total_tokens,
        !.finished_at = "t" ]

_workflow_run_success(workflow_run, total_tokens, total_steps, outputs) ==
    [ workflow_run EXCEPT
        !.status = SUCCEEDED,
        !.outputs = outputs,
        !.total_tokens = total_tokens,
        !.total_steps = total_steps,
        !.finished_at = "t" ]

\* as _workflow_run_failed, finished_at forgotten
_workflow_run_failed_unfinished(workflow_run, total_tokens, total_steps, status, error) ==
    [ workflow_run EXCEPT
        !.status = status,
        !.error = error,
        !.total_tokens = total_tokens,
        !.total_steps = total_steps ]

\* as _workflow_run_failed, the status FAILED whatever the status handed over
_workflow_run_failed_always_failed(workflow_run, total_tokens, total_steps, status, error) ==
    [ workflow_run EXCEPT
        !.status = FAILED,
        !.error = error,
        !.total_tokens = total_tokens,
        !.total_steps = total_steps,
        !.finished_at = "t" ]

_workflow_run_failed(workflow_run, total_tokens, total_steps, status, error) ==
    [ workflow_run EXCEPT
        !.status = status,
        !.error = error,
        !.total_tokens = total_tokens,
        !.total_steps = total_steps,
        !.finished_at = "t" ]

\* as _init_node_execution_from_workflow_run, node_run_index left at its default
_init_node_execution_default_index(workflow_run_id, workflow_run, node_id, node_type, node_title, node_run_index, predecessor_node_id) ==
    [ workflow_run_id |-> workflow_run_id,
      predecessor_node_id |-> predecessor_node_id, index |-> 1,
      node_id |-> node_id, node_type |-> node_type, title |-> node_title,
      status |-> RUNNING, outputs |-> NullBlob, error |-> Null,
      created_by_role |-> workflow_run.created_by_role,
      created_by |-> workflow_run.created_by,
      finished_at |-> Null ]

\* workflow_run_id is workflow_run.id, the position of workflow_run in its table
_init_node_execution_from_workflow_run(workflow_run_id, workflow_run, node_id, node_type, node_title, node_run_index, predecessor_node_id) ==
    [ workflow_run_id |-> workflow_run_id,
      predecessor_node_id |-> predecessor_node_id, index |-> node_run_index,
      node_id |-> node_id, node_type |-> node_type, title |-> node_title,
      status |-> RUNNING, outputs |-> NullBlob, error |-> Null,
      created_by_role |-> workflow_run.created_by_role,
      created_by |-> workflow_run.created_by,
      finished_at |-> Null ]

_workflow_node_execution_success(workflow_node_execution, outputs) ==
    [ workflow_node_execution EXCEPT
        !.status = SUCCEEDED,
        !.outputs = DumpsOrNone(outputs),
        !.finished_at = "t" ]

\* as _workflow_node_execution_failed, the status left as it was
_workflow_node_execution_failed_keeps_status(workflow_node_execution, error, outputs) ==
    [ workflow_node_execution EXCEPT
        !.error = error,
        !.finished_at = "t",
        !.outputs = DumpsOrNone(outputs) ]

\* as _workflow_node_execution_failed, the error not stored
_workflow_node_execution_failed_no_error(workflow_node_execution, error, outputs) ==
    [ workflow_node_execution EXCEPT
        !.status = FAILED,
        !.finished_at = "t",
        !.outputs = DumpsOrNone(outputs) ]

_workflow_node_execution_failed(workflow_node_execution, error, outputs) ==
    [ workflow_node_execution EXCEPT
        !.status = FAILED,
        !.error = error,
        !.finished_at = "t",
        !.outputs = DumpsOrNone(outputs) ]

----------------------------------------------------------------------------------------------------------------------------------------
(* File discovery *)

\* bool(value) of Python
truthy(value) ==
    CASE value.type = "none" -> FALSE
      [] value.type = "str" -> value.id # ""
      [] value.type = "list" -> value.inside # <<>>
      [] value.type = "dict" ->
            value.variant # Absent \/ value.id # Null \/ value.inside # <<>>
      [] OTHER -> TRUE

\* FileVar.to_dict(): the map form, with __variant the class name
to_dict(value) == Value("dict", "FileVar", value.id, <<>>)

\* as _get_file_var_from_value, a file map under a key of a map without __variant found
_get_file_var_from_value_nested(value) ==
    IF ~truthy(value) THEN <<>>
    ELSE IF value.type = "dict"
         THEN IF value.variant # Absent /\ value.variant = "FileVar" THEN <<value>>
              ELSE IF value.inside # <<>> /\ value.inside[1].variant = "FileVar"
                   THEN <<value.inside[1]>> ELSE <<>>
         ELSE IF value.type = "FileVar" THEN <<to_dict(value)>> ELSE <<>>

\* as _get_file_var_from_value, every map with a __variant key taken for a file
_get_file_var_from_value_any_variant(value) ==
    IF ~truthy(value) THEN <<>>
    ELSE IF value.type = "dict"
         THEN IF value.variant # Absent THEN <<value>> ELSE <<>>
         ELSE IF value.type = "FileVar" THEN <<to_dict(value)>> ELSE <<>>

\* Optional[dict]: <<>> for None, <<d>> for the dict d
_get_file_var_from_value(value) ==
    IF ~truthy(value) THEN <<>>
    ELSE IF value.type = "dict"
         THEN IF value.variant # Absent /\ value.variant = "FileVar" THEN <<value>> ELSE <<>>
         ELSE IF value.type = "FileVar" THEN <<to_dict(value)>> ELSE <<>>

RECURSIVE extend_all(_)
\* files after: for r in found: if r: files.extend(r)
extend_all(found) ==
    IF found = <<>> THEN <<>> ELSE Head(found) \o extend_all(Tail(found))

_fetch_files_from_variable_value(value) ==
    IF ~truthy(value) THEN <<>>
    ELSE IF value.type = "list"
         THEN extend_all([ k \in 1..Len(value.inside) |->
                             _get_file_var_from_value(value.inside[k]) ])
         ELSE IF value.type = "dict" THEN _get_file_var_from_value(value) ELSE <<>>

_fetch_files_from_node_outputs(outputs) ==
    IF outputs.none \/ outputs.items = <<>> THEN <<>>
    ELSE extend_all([ k \in 1..Len(outputs.items) |->
                        _fetch_files_from_variable_value(outputs.items[k][2]) ])

\* files=self._fetch_files_from_node_outputs(...outputs_dict) of a finish message
fetch_files ==
    /\ ~files.fetched
    /\ files' = [fetched |-> TRUE, list |-> _fetch_files_from_node_outputs(outputs_dict)]
    /\ UNCHANGED <<workflow_runs, workflow_node_executions, task_state, pc, max_sequence,
                   result, hist, generate_entity, outputs_dict, response>>

----------------------------------------------------------------------------------------------------------------------------------------
(* Handlers *)

\* the inputs of a new run: the user inputs, then each system input stored under its
\* prefixed key
init_inputs(user_inputs, system_inputs) ==
    LET merged ==
            [ k \in DOMAIN user_inputs \cup { sys_key(q) : q \in DOMAIN system_inputs } |->
                IF \E q \in DOMAIN system_inputs : sys_key(q) = k
                THEN system_inputs[CHOOSE q \in DOMAIN system_inputs : sys_key(q) = k]
                ELSE user_inputs[k] ]
    IN  handle_special_values(merged)

\* the handler op of invocation i, given an event of this kind, returned a row
\* ("row") or None ("none"), or raised ("raise")
Returned(i, op, kind, ret) == result' = [inv |-> i, op |-> op, kind |-> kind, ret |-> ret]

events_of(h) == h.node_started + h.node_finished + h.terminal
\* the model follows the invocations up to MaxEvents events
within_bound == events_of(hist["i1"]) + events_of(hist["i2"]) < MaxEvents

\* _handle_workflow_start, up to the aggregate query of _init_workflow_run
_handle_workflow_start_query(i) ==
    /\ pc[i] = "init"
    /\ task_state' = [task_state EXCEPT ![i].start_at = "t"]
    /\ max_sequence' = [max_sequence EXCEPT ![i] = query_max_sequence(Workflow)]
    /\ pc' = [pc EXCEPT ![i] = "read"]
    /\ UNCHANGED <<workflow_runs, workflow_node_executions, result, hist, generate_entity, outputs_dict, files, response>>

\* _handle_workflow_start, from new_sequence_number on: insert, commit, Task State
_handle_workflow_start_insert(i) ==
    /\ pc[i] = "read"
    /\ LET new_sequence_number == max_sequence[i] + 1
           inputs == init_inputs(generate_entity[i].inputs, generate_entity[i].system_variables)
       IN  workflow_runs' = Append(workflow_runs,
                                   WorkflowRun(Workflow, new_sequence_number, inputs,
                                               User(i)))
    /\ task_state' = [task_state EXCEPT ![i].workflow_run_id = Len(workflow_runs) + 1]
    /\ pc' = [pc EXCEPT ![i] = "running"]
    /\ Returned(i, "workflow_start", Null, "row")
    /\ hist' = [ j \in Invocations |->
                   IF j # i /\ pc[j] = "read" THEN [hist[j] EXCEPT !.interleaved = TRUE]
                   ELSE hist[j] ]
    /\ UNCHANGED <<workflow_node_executions, max_sequence, generate_entity, outputs_dict, files, response>>

\* as node_start_task_state, a step counted once for each node id
node_start_task_state_distinct(ts, event, latest_node_execution_info) ==
    [ ts EXCEPT
        !.ran_node_execution_infos[event.node_id] = latest_node_execution_info,
        !.latest_node_execution_info = latest_node_execution_info,
        !.total_steps = IF ts.ran_node_execution_infos[event.node_id] = NoInfo THEN @ + 1 ELSE @ ]

\* as node_start_task_state, the bookkeeping entry of a node id written once
node_start_task_state_keep_first(ts, event, latest_node_execution_info) ==
    [ ts EXCEPT
        !.ran_node_execution_infos[event.node_id] =
            IF @ = NoInfo THEN latest_node_execution_info ELSE @,
        !.latest_node_execution_info = latest_node_execution_info,
        !.total_steps = @ + 1 ]

\* Task State of _handle_node_start
node_start_task_state(ts, event, latest_node_execution_info) ==
    [ ts EXCEPT
        !.ran_node_execution_infos[event.node_id] = latest_node_execution_info,
        !.latest_node_execution_info = latest_node_execution_info,
        !.total_steps = @ + 1 ]

_handle_node_start(i, event) ==
    /\ pc[i] # "read"
    /\ within_bound
    /\ IF ~run_exists(task_state[i].workflow_run_id)
       THEN \* workflow_run is None: workflow_run.tenant_id raises
            /\ Returned(i, "node_start", Null, "raise")
            /\ UNCHANGED <<workflow_node_executions, task_state, hist>>
       ELSE LET id == Len(workflow_node_executions) + 1
                latest_node_execution_info ==
                    [workflow_node_execution_id |-> id, node_type |-> event.node_type]
            IN  /\ workflow_node_executions' =
                       Append(workflow_node_executions,
                              _init_node_execution_from_workflow_run(
                                  task_state[i].workflow_run_id,
                                  workflow_runs[task_state[i].workflow_run_id],
                                  event.node_id, event.node_type, event.title,
                                  event.node_run_index, event.predecessor_node_id))
                /\ task_state' =
                       [task_state EXCEPT
                          ![i] = node_start_task_state(@, event, latest_node_execution_info)]
                /\ hist' = [hist EXCEPT
                               ![i] = observe([@ EXCEPT !.node_started = @ + 1],
                                              node_started_event(event))]
                /\ Returned(i, "node_start", Null, "row")
    /\ UNCHANGED <<workflow_runs, pc, max_sequence, generate_entity, outputs_dict, files, response>>

\* event.execution_metadata and event.execution_metadata.get(TOTAL_TOKENS), then int(...)
added_tokens(execution_metadata) ==
    IF execution_metadata.keys = "tokens" /\ execution_metadata.total_tokens # 0
    THEN execution_metadata.total_tokens
    ELSE 0

\* outputs.get('usage', {})
EmptyMap == "{}"
usage_dict(outputs) == IF outputs.usage = Absent THEN EmptyMap ELSE outputs.usage

\* workflow_node_execution.outputs_dict is None: outputs.get raises
usage_raises(workflow_node_execution) ==
    /\ workflow_node_execution.node_type = LLM
    /\ workflow_node_execution.outputs = NullBlob

\* as node_succeeded_task_state, total_tokens assigned instead of accumulated
node_succeeded_task_state_assign(ts, event, workflow_node_execution) ==
    [ ts EXCEPT
        !.total_tokens = IF added_tokens(event.execution_metadata) # 0
                         THEN added_tokens(event.execution_metadata) ELSE @,
        !.usage = IF workflow_node_execution.node_type = LLM
                     /\ ~usage_raises(workflow_node_execution)
                  THEN usage_dict(json_loads(workflow_node_execution.outputs))
                  ELSE @ ]

\* as node_succeeded_task_state, the usage taken from nodes of every type
node_succeeded_task_state_any_type(ts, event, workflow_node_execution) ==
    [ ts EXCEPT
        !.total_tokens = @ + added_tokens(event.execution_metadata),
        !.usage = IF workflow_node_execution.outputs # NullBlob
                  THEN usage_dict(json_loads(workflow_node_execution.outputs))
                  ELSE @ ]

\* Task State of the NodeSucceeded branch of _handle_node_finished
node_succeeded_task_state(ts, event, workflow_node_execution) ==
    [ ts EXCEPT
        !.total_tokens = @ + added_tokens(event.execution_metadata),
        !.usage = IF workflow_node_execution.node_type = LLM
                     /\ ~usage_raises(workflow_node_execution)
                  THEN usage_dict(json_loads(workflow_node_execution.outputs))
                  ELSE @ ]

\* what the finish events of an invocation amount to, kept beside the program state
finish_hist(h, event, id) ==
    [ observe(h, node_finished_event(event)) EXCEPT
        !.node_finished = @ + 1,
        !.last_finished = id,
        !.token_sum = @ + (IF event.kind = "succeeded" /\ event.execution_metadata.keys = "tokens"
                           THEN event.execution_metadata.total_tokens ELSE 0),
        !.last_llm = IF event.kind = "succeeded" /\ NodeTypeOf(event.node_id) = LLM
                     THEN [seen |-> TRUE, outputs |-> event.outputs] ELSE @ ]

\* as no_node_execution_info, the lookup by .get(): None returned and nothing raised
no_node_execution_info_get(i, event) ==
    /\ Returned(i, "node_finished", event.kind, "none")
    /\ UNCHANGED <<workflow_node_executions, task_state, hist>>

\* KeyError of ran_node_execution_infos[event.node_id]
no_node_execution_info(i, event) ==
    /\ Returned(i, "node_finished", event.kind, "raise")
    /\ UNCHANGED <<workflow_node_executions, task_state, hist>>

\* as update_node_execution, the row looked up by its node id
update_node_execution_by_node_id(executions, id, workflow_node_execution) ==
    [ k \in DOMAIN executions |->
        IF executions[k].node_id = workflow_node_execution.node_id
        THEN workflow_node_execution ELSE executions[k] ]

\* the table after the commit of the row found by filter(WorkflowNodeExecution.id == id)
update_node_execution(executions, id, workflow_node_execution) ==
    [executions EXCEPT ![id] = workflow_node_execution]

_handle_node_finished(i, event) ==
    /\ pc[i] # "read"
    /\ within_bound
    /\ LET current_node_execution == task_state[i].ran_node_execution_infos[event.node_id]
           id == current_node_execution.workflow_node_execution_id
       IN  IF current_node_execution = NoInfo
           THEN no_node_execution_info(i, event)
           ELSE IF event.kind = "succeeded"
           THEN LET workflow_node_execution ==
                        _workflow_node_execution_success(workflow_node_executions[id], event.outputs)
                IN  /\ workflow_node_executions' =
                           update_node_execution(workflow_node_executions, id,
                                                 workflow_node_execution)
                    /\ task_state' =
                           [task_state EXCEPT
                              ![i] = node_succeeded_task_state(@, event, workflow_node_execution)]
                    /\ hist' = [hist EXCEPT ![i] = finish_hist(@, event, id)]
                    /\ Returned(i, "node_finished", event.kind,
                                IF usage_raises(workflow_node_execution) THEN "raise" ELSE "row")
           ELSE /\ workflow_node_executions' =
                       update_node_execution(
                           workflow_node_executions, id,
                           _workflow_node_execution_failed(workflow_node_executions[id],
                                                           event.error, event.outputs))
                /\ hist' = [hist EXCEPT ![i] = finish_hist(@, event, id)]
                /\ Returned(i, "node_finished", event.kind, "row")
                /\ UNCHANGED task_state
    /\ UNCHANGED <<workflow_runs, pc, max_sequence, generate_entity, outputs_dict, files, response>>

\* as latest_outputs, an empty dict serialised where the record has no outputs
latest_outputs_or_empty(ts) ==
    IF ts.latest_node_execution_info # NoInfo
    THEN LET outputs ==
                 workflow_node_executions[
                     ts.latest_node_execution_info.workflow_node_execution_id].outputs
         IN  IF outputs = NullBlob THEN json_dumps(EmptyDict) ELSE outputs
    ELSE NullBlob

\* outputs of the WorkflowSucceeded branch of _handle_workflow_finished
latest_outputs(ts) ==
    IF ts.latest_node_execution_info # NoInfo
    THEN workflow_node_executions[ts.latest_node_execution_info.workflow_node_execution_id].outputs
    ELSE NullBlob

\* as no_workflow_run, the check left out: setting a field of None raises
no_workflow_run_unchecked(i, event) ==
    /\ Returned(i, "workflow_finished", event.kind, "raise")
    /\ UNCHANGED <<workflow_runs, task_state, hist>>

\* if not workflow_run: return None
no_workflow_run(i, event) ==
    /\ Returned(i, "workflow_finished", event.kind, "none")
    /\ UNCHANGED <<workflow_runs, task_state, hist>>

_handle_workflow_finished(i, event) ==
    /\ pc[i] # "read"
    /\ LET ts == task_state[i]
           id == ts.workflow_run_id
       IN  IF ~run_exists(id)
           THEN no_workflow_run(i, event)
           ELSE /\ within_bound
                /\ workflow_runs' =
                       [workflow_runs EXCEPT ![id] =
                          IF event.kind = "stop"
                          THEN _workflow_run_failed(@, ts.total_tokens, ts.total_steps,
                                                    STOPPED, "Workflow stopped.")
                          ELSE IF event.kind = "failed"
                          THEN _workflow_run_failed(@, ts.total_tokens, ts.total_steps,
                                                    FAILED, event.error)
                          ELSE _workflow_run_success(@, ts.total_tokens, ts.total_steps,
                                                     latest_outputs(ts))]
                /\ task_state' = [task_state EXCEPT ![i].workflow_run_id = id]
                /\ hist' = [hist EXCEPT
                               ![i] = observe([@ EXCEPT !.terminal = @ + 1],
                                              workflow_finished_event(event))]
                /\ Returned(i, "workflow_finished", event.kind, "row")
    /\ UNCHANGED <<workflow_node_executions, pc, max_sequence, generate_entity, outputs_dict, files, response>>

----------------------------------------------------------------------------
(* Stream responses *)

\* outputs_dict of a row as an outputs mapping: None for a null column, else the entries
\* of the stored dict, the text a str and the usage a map
outputs_mapping(blob) ==
    IF blob = NullBlob THEN [none |-> TRUE, items |-> <<>>]
    ELSE LET d == json_loads(blob)
         IN  [ none |-> FALSE,
               items |-> (IF d.text # Absent THEN << <<"text", Str(d.text)>> >> ELSE <<>>)
                         \o (IF d.usage # Absent
                             THEN << <<"usage", DictHolding(Str(d.usage))>> >> ELSE <<>>) ]

\* a message that could not be built: finished_at.timestamp() of a null finished_at raises
raised_response(message) == [NoResponse EXCEPT !.message = message, !.raised = TRUE]

_workflow_start_to_stream_response(id, workflow_run) ==
    [ NoResponse EXCEPT
        !.message = "workflow_started",
        !.workflow_run_id = id,
        !.id = id,
        !.sequence_number = workflow_run.sequence_number ]

\* as _workflow_finish_to_stream_response, total_steps taken from total_tokens
_workflow_finish_to_stream_response_tokens_as_steps(id, workflow_run) ==
    IF workflow_run.finished_at = Null THEN raised_response("workflow_finished")
    ELSE [ NoResponse EXCEPT
             !.message = "workflow_finished",
             !.workflow_run_id = id,
             !.id = id,
             !.sequence_number = workflow_run.sequence_number,
             !.status = workflow_run.status,
             !.outputs = outputs_mapping(workflow_run.outputs),
             !.error = workflow_run.error,
             !.total_tokens = workflow_run.total_tokens,
             !.total_steps = workflow_run.total_tokens,
             !.files = _fetch_files_from_node_outputs(outputs_mapping(workflow_run.outputs)) ]

_workflow_finish_to_stream_response(id, workflow_run) ==
    IF workflow_run.finished_at = Null THEN raised_response("workflow_finished")
    ELSE [ NoResponse EXCEPT
             !.message = "workflow_finished",
             !.workflow_run_id = id,
             !.id = id,
             !.sequence_number = workflow_run.sequence_number,
             !.status = workflow_run.status,
             !.outputs = outputs_mapping(workflow_run.outputs),
             !.error = workflow_run.error,
             !.total_tokens = workflow_run.total_tokens,
             !.total_steps = workflow_run.total_steps,
             !.files = _fetch_files_from_node_outputs(outputs_mapping(workflow_run.outputs)) ]

_workflow_node_start_to_stream_response(id, workflow_node_execution) ==
    [ NoResponse EXCEPT
        !.message = "node_started",
        !.workflow_run_id = workflow_node_execution.workflow_run_id,
        !.id = id,
        !.node_id = workflow_node_execution.node_id,
        !.node_type = workflow_node_execution.node_type,
        !.index = workflow_node_execution.index,
        !.predecessor_node_id = workflow_node_execution.predecessor_node_id ]

_workflow_node_finish_to_stream_response(id, workflow_node_execution) ==
    IF workflow_node_execution.finished_at = Null THEN raised_response("node_finished")
    ELSE [ NoResponse EXCEPT
             !.message = "node_finished",
             !.workflow_run_id = workflow_node_execution.workflow_run_id,
             !.id = id,
             !.node_id = workflow_node_execution.node_id,
             !.node_type = workflow_node_execution.node_type,
             !.index = workflow_node_execution.index,
             !.predecessor_node_id = workflow_node_execution.predecessor_node_id,
             !.outputs = outputs_mapping(workflow_node_execution.outputs),
             !.status = workflow_node_execution.status,
             !.error = workflow_node_execution.error,
             !.files = _fetch_files_from_node_outputs(
                           outputs_mapping(workflow_node_execution.outputs)) ]

\* a call of a projection with a row of the table: the message is built, nothing written
projection_frame ==
    UNCHANGED <<workflow_runs, workflow_node_executions, task_state, pc, max_sequence,
                result, hist, generate_entity, outputs_dict, files>>

workflow_start_response(k) ==
    /\ response' = _workflow_start_to_stream_response(k, workflow_runs[k])
    /\ projection_frame

workflow_finish_response(k) ==
    /\ response' = _workflow_finish_to_stream_response(k, workflow_runs[k])
    /\ projection_frame

node_start_response(k) ==
    /\ response' = _workflow_node_start_to_stream_response(k, workflow_node_executions[k])
    /\ projection_frame

node_finish_response(k) ==
    /\ response' = _workflow_node_finish_to_stream_response(k, workflow_node_executions[k])
    /\ projection_frame

----------------------------------------------------------------------------
(* Specifications *)

WorkflowFinishedEvents ==
    QueueStopEvent \cup QueueWorkflowSucceededEvent \cup QueueWorkflowFailedEvent

\* every handler, for one invocation and the events it may receive
Handle(i, node_ids, dicts, metadatas) ==
    \/ _handle_workflow_start_query(i)
    \/ _handle_workflow_start_insert(i)
    \/ \E event \in QueueNodeStartedEvent :
           event.node_id \in node_ids /\ _handle_node_start(i, event)
    \/ \E event \in QueueNodeSucceededEvent \cup QueueNodeFailedEvent :
           /\ event.node_id \in node_ids
           /\ event.outputs \in dicts
           /\ event.execution_metadata \in metadatas
           /\ _handle_node_finished(i, event)
    \/ \E event \in WorkflowFinishedEvents : _handle_workflow_finished(i, event)

\* one invocation consuming its event stream, every event shape
Next == Handle("i1", NodeIds, Dicts, Metadatas)

Spec == Init /\ [][Next]_vars

\* two invocations of the same workflow, their handler calls interleaved
NextConcurrent ==
    \E i \in Invocations :
        Handle(i, {"A"}, {[text |-> "a", usage |-> Absent]},
               {NoneMeta, [keys |-> "tokens", total_tokens |-> 5]})

SpecConcurrent == Init /\ [][NextConcurrent]_vars

\* two invocations that start their runs, each with any user inputs and system variables
InitInputs ==
    /\ InitRepository
    /\ generate_entity \in [Invocations -> Entities]
    /\ outputs_dict = [none |-> TRUE, items |-> <<>>]
    /\ files = NotFetched
    /\ response = NoResponse

NextInputs ==
    \E i \in Invocations :
        \/ _handle_workflow_start_query(i)
        \/ _handle_workflow_start_insert(i)

SpecInputs == InitInputs /\ [][NextInputs]_vars

\* the file discovery applied to any outputs mapping
InitFiles ==
    /\ InitRepository
    /\ generate_entity = [i \in Invocations |-> DefaultEntity]
    /\ outputs_dict \in OutputsDicts
    /\ files = NotFetched
    /\ response = NoResponse

NextFiles == fetch_files

SpecFiles == InitFiles /\ [][NextFiles]_vars

\* one invocation and one node, with the four projections called on any row at any time
NextProjections ==
    \/ Handle("i1", {"A"}, {[text |-> "a", usage |-> Absent]},
              {[keys |-> "tokens", total_tokens |-> 5]})
    \/ \E k \in DOMAIN workflow_runs : workflow_start_response(k)
    \/ \E k \in DOMAIN workflow_runs : workflow_finish_response(k)
    \/ \E k \in DOMAIN workflow_node_executions : node_start_response(k)
    \/ \E k \in DOMAIN workflow_node_executions : node_finish_response(k)

SpecProjections == Init /\ [][NextProjections]_vars

----------------------------------------------------------------------------
(* Properties *)

Terminal == {SUCCEEDED, FAILED, STOPPED}
same_scope(r1, r2) == r1.tenant_id = r2.tenant_id /\ r1.app_id = r2.app_id
\* the run row of invocation i, once _handle_workflow_start has returned
run_of(i) == workflow_runs[task_state[i].workflow_run_id]
\* the last handler call was op on an event of this kind, for invocation i, and returned ret
last_call(i, op, kind, ret) == result = [inv |-> i, op |-> op, kind |-> kind, ret |-> ret]

\* the step ends a call of handler op by invocation i on an event of this kind
called(i, op, kind) == result'.inv = i /\ result'.op = op /\ result'.kind = kind

\* C1: when _handle_workflow_start calls for the same (tenant, app) interleave, no two
\* run rows of that (tenant, app) carry the same sequence_number.
C1_UniqueSequenceNumber ==
    \A j, k \in DOMAIN workflow_runs :
        j # k /\ same_scope(workflow_runs[j], workflow_runs[k])
            => workflow_runs[j].sequence_number # workflow_runs[k].sequence_number

\* C2: a run is RUNNING until its first terminal event is processed; from then on
\* finished_at is non-null and no later event, terminal ones included, changes the status.
C2_TerminalStatusIsFinal ==
    [][ /\ \A i \in Invocations :
               pc'[i] = "running" /\ hist'[i].terminal = 0
                   => workflow_runs'[task_state'[i].workflow_run_id].status = RUNNING
        /\ \A k \in DOMAIN workflow_runs :
               workflow_runs[k].status \in Terminal
                   => /\ workflow_runs'[k].status = workflow_runs[k].status
                      /\ workflow_runs'[k].finished_at # Null ]_vars

\* C3: a node-execution record makes one transition, RUNNING to SUCCEEDED or FAILED:
\* once it is SUCCEEDED or FAILED no later event changes its status.
C3_NodeStatusIsFinal ==
    [][ \A k \in DOMAIN workflow_node_executions :
            workflow_node_executions[k].status \in {SUCCEEDED, FAILED}
                => workflow_node_executions'[k].status = workflow_node_executions[k].status ]_vars

\* C4: after WorkflowSucceeded is processed, when a node has finished, the run's outputs
\* are the raw outputs of the node execution whose finish event was processed last.
C4_OutputsOfLastFinished ==
    \A i \in Invocations :
        last_call(i, "workflow_finished", "succeeded", "row") /\ hist[i].last_finished # 0
            => run_of(i).outputs = workflow_node_executions[hist[i].last_finished].outputs

\* C5: after WorkflowSucceeded is processed, when no node has finished in the run (none
\* started, or none of the started ones finished), the run's outputs are null.
C5_NoFinishedNodeNoOutputs ==
    \A i \in Invocations :
        last_call(i, "workflow_finished", "succeeded", "row") /\ hist[i].node_finished = 0
            => run_of(i).outputs = NullBlob

C5_Witness ==
    /\ last_call("i1", "workflow_finished", "succeeded", "row")
    /\ hist["i1"].node_finished = 0
    /\ hist["i1"].node_started = 2
    /\ run_of("i1").status = SUCCEEDED

\* C6: Task State total_steps is the number of NodeStarted events processed so far,
\* every activation counted, also of a node id started before; nothing else changes it.
C6_TotalStepsCountsNodeStarted ==
    \A i \in Invocations : task_state[i].total_steps = hist[i].node_started

C6_Witness ==
    /\ task_state["i1"].total_steps = 2
    /\ task_state["i1"].ran_node_execution_infos["A"].workflow_node_execution_id = 2
    /\ task_state["i1"].ran_node_execution_infos["B"] = NoInfo
    /\ hist["i1"].node_finished > 0

\* C7: Task State total_tokens is the sum of the total_tokens of execution_metadata over
\* the NodeSucceeded events processed so far; NodeSucceeded events without the field or
\* without metadata, NodeFailed events and NodeStarted events add nothing.
C7_TotalTokensIsSum ==
    \A i \in Invocations : task_state[i].total_tokens = hist[i].token_sum

C7_Witness ==
    /\ task_state["i1"].total_tokens = 10
    /\ hist["i1"].node_finished = 3
    /\ \E k \in DOMAIN workflow_node_executions : workflow_node_executions[k].status = FAILED

C9_FinishedAtIffTerminal ==
    \A k \in DOMAIN workflow_runs :
        workflow_runs[k].finished_at # Null <=> workflow_runs[k].status \in Terminal

C9_Witness ==
    /\ pc["i1"] = "running"
    /\ run_of("i1").status = STOPPED
    /\ run_of("i1").finished_at # Null
    /\ hist["i1"].terminal = 2

\* C10: _handle_workflow_finished, for each of the three event kinds, when the run id of
\* Task State matches no run row, returns None without raising and leaves the run rows,
\* the node-execution rows and Task State as they were.
C10_MissingRunIsNoOp ==
    [][ \A i \in Invocations : \A event \in WorkflowFinishedEvents :
            /\ called(i, "workflow_finished", event.kind)
            /\ ~run_exists(task_state[i].workflow_run_id)
            /\ _handle_workflow_finished(i, event)
            => /\ result'.ret = "none"
               /\ UNCHANGED <<workflow_runs, workflow_node_executions, task_state>> ]_vars

C10_Witness ==
    /\ last_call("i1", "workflow_finished", "failed", "none")
    /\ ~run_exists(task_state["i1"].workflow_run_id)

\* C11: from a freshly started run, the events NodeStarted(A), NodeSucceeded(A, total_tokens
\* 5), NodeStarted(B), NodeFailed(B, "x"), WorkflowFailed("x"), processed in this order and
\* nothing else, end with the run FAILED, total_steps 2, total_tokens 5, error "x", and
\* exactly two node-execution rows: A's SUCCEEDED and B's FAILED.
C11_ExampleRun ==
    hist["i1"].scenario = [on |-> TRUE, step |-> Len(Scenario)]
        => /\ run_of("i1").status = FAILED
           /\ run_of("i1").total_steps = 2
           /\ run_of("i1").total_tokens = 5
           /\ run_of("i1").error = "x"
           /\ task_state["i1"].total_steps = 2
           /\ task_state["i1"].total_tokens = 5
           /\ Len(workflow_node_executions) = 2
           /\ workflow_node_executions[1].node_id = "A"
           /\ workflow_node_executions[1].status = SUCCEEDED
           /\ workflow_node_executions[2].node_id = "B"
           /\ workflow_node_executions[2].status = FAILED

C11_Witness ==
    /\ hist["i1"].scenario = [on |-> TRUE, step |-> Len(Scenario)]
    /\ last_call("i1", "workflow_finished", "failed", "row")
    /\ hist["i1"].node_started = 2
    /\ hist["i1"].node_finished = 2

\* C12: when the query and the insert of _handle_workflow_start run with no insert of
\* another invocation between them, the new run gets sequence_number 1 if no run row of
\* its (tenant, app) exists, and otherwise the largest sequence_number of the rows of its
\* (tenant, app) plus one: rows of other pairs do not count, and the number is larger than
\* that of every earlier run of the pair.
C12_SequentialSequenceNumber ==
    [][ \A i \in Invocations :
            _handle_workflow_start_insert(i) /\ ~hist[i].interleaved
                => LET new == workflow_runs'[Len(workflow_runs')]
                       scope == { k \in DOMAIN workflow_runs :
                                  same_scope(workflow_runs[k], Workflow) }
                   IN  /\ same_scope(new, Workflow)
                       /\ scope = {} => new.sequence_number = 1
                       /\ scope # {} =>
                             \E k \in scope :
                                 /\ \A j \in scope : workflow_runs[j].sequence_number
                                                        <= workflow_runs[k].sequence_number
                                 /\ new.sequence_number = workflow_runs[k].sequence_number + 1
                       /\ \A k \in scope :
                             workflow_runs[k].sequence_number < new.sequence_number ]_vars

C12_Witness ==
    /\ Len(workflow_runs) = 3
    /\ ~same_scope(workflow_runs[1], Workflow)
    /\ workflow_runs[2].sequence_number = 1
    /\ workflow_runs[3].sequence_number = 2
    /\ \A i \in Invocations : pc[i] = "running" /\ ~hist[i].interleaved

\* C19: in the inputs stored on a new run, every key of the user inputs holds the value
\* the user gave, and every system input k is stored under "sys." followed by k, whatever
\* the keys of the user inputs are.
C19_UserInputsKept ==
    \A i \in Invocations :
        pc[i] = "running"
            => LET stored == inputs_dict(run_of(i))
                   user_inputs == generate_entity[i].inputs
                   system_inputs == generate_entity[i].system_variables
               IN  /\ \A k \in DOMAIN user_inputs :
                         k \in DOMAIN stored /\ stored[k] = user_inputs[k]
                   /\ \A q \in DOMAIN system_inputs :
                         /\ sys_key(q) \in DOMAIN stored
                         /\ stored[sys_key(q)] = handle_special_values(system_inputs)[q]

\* a file-typed value: a map whose __variant is FileVar, or a file object
file_typed(value) ==
    \/ value.type = "dict" /\ value.variant = "FileVar"
    \/ value.type = "FileVar"
\* the descriptor of a file-typed value
descriptor(value) == IF value.type = "FileVar" THEN to_dict(value) ELSE value
RECURSIVE file_typed_of(_)
\* the descriptors of the file-typed values of a sequence of values, in its order
file_typed_of(values) ==
    IF values = <<>> THEN <<>>
    ELSE (IF file_typed(Head(values)) THEN <<descriptor(Head(values))>> ELSE <<>>)
             \o file_typed_of(Tail(values))
RECURSIVE top_level_files(_)
\* the descriptors of the file-typed values and of the file-typed elements of the list
\* values of the (key, value) pairs, in their order
top_level_files(items) ==
    IF items = <<>> THEN <<>>
    ELSE LET value == Head(items)[2]
         IN  (IF file_typed(value) THEN <<descriptor(value)>>
              ELSE IF value.type = "list" THEN file_typed_of(value.inside)
              ELSE <<>>)
                 \o top_level_files(Tail(items))

persisted_outcome(runs, executions) ==
    [ runs |-> [ k \in DOMAIN runs |-> <<runs[k].status, runs[k].error, runs[k].outputs>> ],
      executions |-> [ k \in DOMAIN executions |->
                         <<executions[k].status, executions[k].error, executions[k].outputs>> ] ]
aggregates(ts) == [ i \in Invocations |-> <<ts[i].total_tokens, ts[i].total_steps>> ]

\* C14: a NodeSucceeded, NodeFailed, Stop, WorkflowSucceeded or WorkflowFailed event that
\* is processed a second time, immediately after its first processing returned, does not
\* raise and leaves status, error and outputs of every row and total_tokens and
\* total_steps of Task State as the first processing left them.
C14_RetriedDeliveryIdempotent ==
    [][ \A i \in Invocations :
            LET same_outcome ==
                    /\ result'.ret # "raise"
                    /\ persisted_outcome(workflow_runs', workflow_node_executions')
                           = persisted_outcome(workflow_runs, workflow_node_executions)
                    /\ aggregates(task_state') = aggregates(task_state)
            IN  /\ \A event \in QueueNodeSucceededEvent \cup QueueNodeFailedEvent :
                       /\ last_call(i, "node_finished", event.kind, "row")
                       /\ hist[i].last_event = node_finished_event(event)
                       /\ _handle_node_finished(i, event)
                       => same_outcome
                /\ \A event \in WorkflowFinishedEvents :
                       /\ last_call(i, "workflow_finished", event.kind, "row")
                       /\ hist[i].last_event = workflow_finished_event(event)
                       /\ _handle_workflow_finished(i, event)
                       => same_outcome ]_vars

\* the row created by the NodeStarted processed last for node id n in the run run_id (0
\* if there is none)
latest_activation(executions, run_id, n) ==
    SetMax({ k \in DOMAIN executions :
             executions[k].node_id = n /\ executions[k].workflow_run_id = run_id })

\* C15: the bookkeeping map of Task State has one entry for each node id, naming the row
\* created by the NodeStarted processed last for that node id; a finish event for node
\* id n changes that row and no other row: not the row of an earlier activation of n, not
\* a row of another node id.
C15_FinishAppliesToLatestActivation ==
    [][ \A i \in Invocations :
            /\ \A n \in NodeIds :
                   task_state'[i].ran_node_execution_infos[n].workflow_node_execution_id
                       = latest_activation(workflow_node_executions',
                                           task_state'[i].workflow_run_id, n)
            /\ result'.inv = i
                  => \A k \in DOMAIN workflow_node_executions :
                         workflow_node_executions'[k] # workflow_node_executions[k]
                             => /\ result'.op = "node_finished"
                                /\ hist'[i].last_event.op = "node_finished"
                                /\ k = latest_activation(workflow_node_executions,
                                                         task_state[i].workflow_run_id,
                                                         hist'[i].last_event.node_id) ]_vars

C15_Witness ==
    /\ result.op = "node_finished" /\ result.ret = "row"
    /\ Len(workflow_node_executions) = 3
    /\ workflow_node_executions[1].node_id = "A"
    /\ workflow_node_executions[2].node_id = "B"
    /\ workflow_node_executions[3].node_id = "A"
    /\ workflow_node_executions[1].status = RUNNING
    /\ workflow_node_executions[2].status = RUNNING
    /\ workflow_node_executions[3].status = FAILED

\* C16: when _handle_workflow_finished has found the run, a Stop event leaves it STOPPED
\* with error "Workflow stopped.", a WorkflowFailed event FAILED with the error of the
\* event, a WorkflowSucceeded event SUCCEEDED.
C16_StatusByTerminalEvent ==
    \A i \in Invocations :
        result.inv = i /\ result.op = "workflow_finished" /\ result.ret = "row"
            => /\ result.kind = hist[i].last_event.kind
               /\ result.kind = "stop"
                    => run_of(i).status = STOPPED /\ run_of(i).error = "Workflow stopped."
               /\ result.kind = "failed"
                    => run_of(i).status = FAILED /\ run_of(i).error = hist[i].last_event.error
               /\ result.kind = "succeeded" => run_of(i).status = SUCCEEDED

C16_Witness ==
    /\ last_call("i1", "workflow_finished", "stop", "row")
    /\ run_of("i1").status = STOPPED
    /\ run_of("i1").error = "Workflow stopped."
    /\ hist["i1"].terminal = 1
    /\ hist["i1"].node_started = 1

\* C17: when _handle_workflow_finished has updated a run, the total_tokens and total_steps
\* of the run row are those Task State had when the event was processed, and
\* workflow_run_id, total_tokens and total_steps of Task State are what they were.
C17_RunTotalsFromTaskState ==
    [][ \A i \in Invocations : \A event \in WorkflowFinishedEvents :
            /\ called(i, "workflow_finished", event.kind)
            /\ run_exists(task_state[i].workflow_run_id)
            /\ _handle_workflow_finished(i, event)
            => LET run == workflow_runs'[task_state[i].workflow_run_id]
               IN  /\ run.total_tokens = task_state[i].total_tokens
                   /\ run.total_steps = task_state[i].total_steps
                   /\ task_state'[i].workflow_run_id = task_state[i].workflow_run_id
                   /\ task_state'[i].total_tokens = task_state[i].total_tokens
                   /\ task_state'[i].total_steps = task_state[i].total_steps ]_vars

C17_Witness ==
    /\ last_call("i1", "workflow_finished", "succeeded", "row")
    /\ hist["i1"].terminal = 1
    /\ run_of("i1").total_tokens = 5
    /\ run_of("i1").total_steps = 2
    /\ task_state["i1"].total_tokens = 5
    /\ task_state["i1"].total_steps = 2

\* C18: a NodeFailed event whose node id has a bookkeeping entry marks the row of that
\* entry FAILED with the error of the event and changes nothing else: no other
\* node-execution row, no run row (a RUNNING run stays RUNNING, its status, error and
\* outputs as they were), and nothing of Task State (total_tokens, total_steps, the
\* usage slot, the bookkeeping map).
C18_NodeFailedChangesOneRow ==
    [][ \A i \in Invocations : \A event \in QueueNodeFailedEvent :
            /\ called(i, "node_finished", event.kind)
            /\ task_state[i].ran_node_execution_infos[event.node_id] # NoInfo
            /\ _handle_node_finished(i, event)
            => LET id == task_state[i].ran_node_execution_infos[event.node_id]
                             .workflow_node_execution_id
               IN  /\ workflow_node_executions'[id].status = FAILED
                   /\ workflow_node_executions'[id].error = event.error
                   /\ \A k \in DOMAIN workflow_node_executions :
                          k # id => workflow_node_executions'[k] = workflow_node_executions[k]
                   /\ UNCHANGED <<workflow_runs, task_state>> ]_vars

C18_Witness ==
    /\ last_call("i1", "node_finished", "failed", "row")
    /\ Len(workflow_node_executions) = 2
    /\ run_of("i1").status = RUNNING
    /\ task_state["i1"].total_tokens = 5
    /\ task_state["i1"].usage = "u1"
    /\ workflow_node_executions[2].node_id = "B"
    /\ workflow_node_executions[2].status = FAILED
    /\ workflow_node_executions[2].error = "x"
    /\ workflow_node_executions[1].status = SUCCEEDED

\* the rows of a table that a step has inserted or changed
written(old, new) == { k \in DOMAIN new : k \notin DOMAIN old \/ new[k] # old[k] }

\* C20: every step of a handler writes at most one row: one run row or one
\* node-execution row, never a run row and a node-execution row together, and no row
\* is removed.
C20_OneRowPerCommit ==
    [][ /\ Cardinality(written(workflow_runs, workflow_runs'))
             + Cardinality(written(workflow_node_executions, workflow_node_executions')) <= 1
        /\ Len(workflow_runs') >= Len(workflow_runs)
        /\ Len(workflow_node_executions') >= Len(workflow_node_executions) ]_vars

C20_Witness ==
    /\ Len(workflow_runs) = 2
    /\ Len(workflow_node_executions) = 3
    /\ run_of("i1").status = FAILED
    /\ \A k \in 1..3 : workflow_node_executions[k].node_id = "A"
    /\ workflow_node_executions[3].status = SUCCEEDED
    /\ workflow_node_executions[1].status = RUNNING

\* C22: _handle_node_start inserts one node-execution row: RUNNING, with the node id, node
\* type, title, run index and predecessor node id of the event, workflow_run_id the run id
\* of Task State, created_by and created_by_role those of that run; and in every state
\* the workflow_run_id of every node-execution row names an existing run row.
C22_NodeStartRow ==
    /\ \A k \in DOMAIN workflow_node_executions :
           workflow_node_executions[k].workflow_run_id \in DOMAIN workflow_runs
    /\ Len(workflow_node_executions) = hist["i1"].node_started + hist["i2"].node_started
    /\ \A i \in Invocations :
           result.inv = i /\ result.op = "node_start" /\ result.ret = "row"
               => LET row == workflow_node_executions[Len(workflow_node_executions)]
                      event == CHOOSE e \in QueueNodeStartedEvent :
                                   e.node_id = hist[i].last_event.node_id
                  IN  /\ row.status = RUNNING
                      /\ row.node_id = event.node_id
                      /\ row.node_type = event.node_type
                      /\ row.title = event.title
                      /\ row.index = event.node_run_index
                      /\ row.predecessor_node_id = event.predecessor_node_id
                      /\ row.workflow_run_id = task_state[i].workflow_run_id
                      /\ row.created_by = run_of(i).created_by
                      /\ row.created_by_role = run_of(i).created_by_role
                      /\ row.created_by = User(i).id

C22_Witness ==
    /\ last_call("i1", "node_start", Null, "row")
    /\ Len(workflow_node_executions) = 2
    /\ workflow_node_executions[2].node_id = "B"
    /\ workflow_node_executions[2].index = 2
    /\ workflow_node_executions[2].predecessor_node_id = "A"
    /\ workflow_node_executions[2].created_by = "account-1"
    /\ workflow_node_executions[2].workflow_run_id = 2

\* how often d occurs in the sequence
occurrences(d, seq) == Cardinality({ k \in DOMAIN seq : seq[k] = d })

\* C23: the file discovery looks one level down only: the file list holds no descriptor
\* beyond those of the top-level values and of the elements of the top-level lists, so a
\* file inside a map that is not a file, inside a list within a list, or inside a map
\* within a list adds nothing.
C23_OneLevelOnly ==
    files.fetched
        => \A k \in DOMAIN files.list :
               occurrences(files.list[k], files.list)
                   <= occurrences(files.list[k], top_level_files(outputs_dict.items))

C23_Witness ==
    /\ files.fetched
    /\ outputs_dict.items =
           << <<"k1", List(<<List(<<FileDict("f1")>>), DictHolding(FileDict("f1"))>>)>>,
              <<"k2", FileDict("f2")>> >>
    /\ files.list = <<FileDict("f2")>>

\* a value that the file discovery has to skip
not_file_typed(value) == ~file_typed(value)

\* C24: the file discovery returns a list for every outputs mapping: the empty list for
\* absent or empty outputs; a scalar, an empty value, a map without __variant or with
\* another __variant, at top level or as a list element, gives no descriptor, so every
\* entry of the file list is a map with __variant FileVar and a mapping without
\* file-typed values and list elements gives the empty list.
C24_NonFilesSkipped ==
    files.fetched
        => /\ outputs_dict.none \/ outputs_dict.items = <<>> => files.list = <<>>
           /\ \A k \in DOMAIN files.list :
                  files.list[k].type = "dict" /\ files.list[k].variant = "FileVar"
           /\ (\A k \in DOMAIN outputs_dict.items :
                   LET value == outputs_dict.items[k][2]
                   IN  /\ not_file_typed(value)
                       /\ value.type = "list"
                             => \A j \in DOMAIN value.inside : not_file_typed(value.inside[j]))
                 => files.list = <<>>

C24_Witness ==
    /\ files.fetched
    /\ outputs_dict.items =
           << <<"k1", List(<<OtherVariantDict, DictHolding(Str("hello"))>>)>>,
              <<"k2", Str("hello")>> >>
    /\ files.list = <<>>

\* C26: a NodeSucceeded or NodeFailed event for a node id without a bookkeeping entry in
\* Task State raises, and no node-execution row, no run row and nothing of Task State is
\* changed by it.
C26_FinishWithoutStartRaises ==
    [][ \A i \in Invocations :
            /\ result'.inv = i
            /\ result'.op = "node_finished"
            /\ \E n \in NodeIds : task_state[i].ran_node_execution_infos[n] = NoInfo
            => \A event \in QueueNodeSucceededEvent \cup QueueNodeFailedEvent :
                   /\ task_state[i].ran_node_execution_infos[event.node_id] = NoInfo
                   /\ _handle_node_finished(i, event)
                   => /\ result'.ret = "raise"
                      /\ UNCHANGED <<workflow_runs, workflow_node_executions,
                                      task_state>> ]_vars

C26_Witness ==
    /\ last_call("i1", "node_finished", "succeeded", "raise")
    /\ pc["i1"] = "running"
    /\ hist["i1"].node_started = 1
    /\ hist["i1"].node_finished = 0
    /\ task_state["i1"].ran_node_execution_infos["A"] = NoInfo
    /\ task_state["i1"].total_tokens = 0
    /\ workflow_node_executions[1].status = RUNNING

\* C27: in every state and for every run row, SUCCEEDED implies a null error, STOPPED
\* implies the error "Workflow stopped.", and RUNNING implies a null error and null
\* outputs, also after more than one terminal event for the run.
C27_ErrorMatchesStatus ==
    \A k \in DOMAIN workflow_runs :
        LET run == workflow_runs[k]
        IN  /\ run.status = SUCCEEDED => run.error = Null
            /\ run.status = STOPPED => run.error = "Workflow stopped."
            /\ run.status = RUNNING => run.error = Null /\ run.outputs = NullBlob

\* C28: the usage slot of Task State changes only in the step of a NodeSucceeded event
\* whose record has node type LLM; and a NodeSucceeded event of an LLM record whose
\* outputs have no usage field leaves the slot the empty map.
C28_UsageSlotFrame ==
    [][ \A i \in Invocations :
            /\ task_state'[i].usage # task_state[i].usage
                  => \E event \in QueueNodeSucceededEvent :
                         /\ _handle_node_finished(i, event)
                         /\ task_state[i].ran_node_execution_infos[event.node_id].node_type = LLM
            /\ \A event \in QueueNodeSucceededEvent :
                  /\ _handle_node_finished(i, event)
                  /\ task_state[i].ran_node_execution_infos[event.node_id].node_type = LLM
                  /\ event.outputs.usage = Absent
                  => task_state'[i].usage = EmptyMap ]_vars

\* C25: each of the four projections leaves every run row, every node-execution row and
\* Task State as they were, and the id, status, sequence number, total_tokens and
\* total_steps of the message it returns are those of the row handed to it.
C25_ProjectionsArePure ==
    [][ /\ \A k \in DOMAIN workflow_runs :
               /\ workflow_start_response(k)
                     => /\ UNCHANGED <<workflow_runs, workflow_node_executions, task_state>>
                        /\ response'.id = k
                        /\ response'.sequence_number = workflow_runs[k].sequence_number
               /\ workflow_finish_response(k)
                     => /\ UNCHANGED <<workflow_runs, workflow_node_executions, task_state>>
                        /\ ~response'.raised
                              => /\ response'.id = k
                                 /\ response'.sequence_number = workflow_runs[k].sequence_number
                                 /\ response'.status = workflow_runs[k].status
                                 /\ response'.total_tokens = workflow_runs[k].total_tokens
                                 /\ response'.total_steps = workflow_runs[k].total_steps
        /\ \A k \in DOMAIN workflow_node_executions :
               /\ node_start_response(k)
                     => /\ UNCHANGED <<workflow_runs, workflow_node_executions, task_state>>
                        /\ response'.id = k
               /\ node_finish_response(k)
                     => /\ UNCHANGED <<workflow_runs, workflow_node_executions, task_state>>
                        /\ ~response'.raised
                              => /\ response'.id = k
                                 /\ response'.status = workflow_node_executions[k].status ]_vars

C25_Witness ==
    /\ response.message = "workflow_finished"
    /\ ~response.raised
    /\ response.id = 2
    /\ response.sequence_number = 1
    /\ response.status = SUCCEEDED
    /\ response.total_tokens = 5
    /\ response.total_steps = 2
    /\ run_of("i1").status = SUCCEEDED

\* the step is a handler call of invocation i
actor(i) ==
    IF \E j \in Invocations : pc'[j] # pc[j] THEN pc'[i] # pc[i] ELSE result'.inv = i

\* what an invocation has reached is what its own events amount to
own_outcome(i) ==
    /\ task_state[i].total_steps = hist[i].node_started
    /\ task_state[i].total_tokens = hist[i].token_sum
    /\ hist[i].last_event.op = "workflow_finished"
          => LET run == run_of(i)
                 latest == task_state[i].latest_node_execution_info
             IN  /\ run.total_steps = hist[i].node_started
                 /\ run.total_tokens = hist[i].token_sum
                 /\ run.status = CASE hist[i].last_event.kind = "stop" -> STOPPED
                                    [] hist[i].last_event.kind = "failed" -> FAILED
                                    [] OTHER -> SUCCEEDED
                 /\ hist[i].last_event.kind = "succeeded" /\ latest # NoInfo
                       => LET row == workflow_node_executions[latest.workflow_node_execution_id]
                          IN  /\ row.workflow_run_id = task_state[i].workflow_run_id
                              /\ run.outputs = row.outputs

\* C21: when two invocations process their events interleaved, a handler call of one
\* changes neither the run row, nor a node-execution row, nor the Task State of the
\* other, and status, total_steps, total_tokens and outputs of each run are what the
\* events of its own invocation amount to.
C21_InvocationsIsolated ==
    [][ /\ \A i, j \in Invocations :
               i # j /\ actor(i)
                   => LET id == task_state[j].workflow_run_id
                      IN  /\ task_state'[j] = task_state[j]
                          /\ run_exists(id) => workflow_runs'[id] = workflow_runs[id]
                          /\ \A k \in DOMAIN workflow_node_executions' :
                                 workflow_node_executions'[k].workflow_run_id = id
                                     => /\ k \in DOMAIN workflow_node_executions
                                        /\ workflow_node_executions'[k]
                                               = workflow_node_executions[k]
        /\ \A i \in Invocations : own_outcome(i)' ]_vars

C21_Witness ==
    /\ \A i \in Invocations : pc[i] = "running" /\ hist[i].terminal = 1
    /\ run_of("i1").status = SUCCEEDED
    /\ run_of("i1").total_tokens = 5
    /\ run_of("i1").outputs = json_dumps([text |-> "a", usage |-> Absent])
    /\ run_of("i2").status = FAILED
    /\ run_of("i2").total_tokens = 0
    /\ run_of("i2").total_steps = 1
    /\ workflow_node_executions[1].workflow_run_id = task_state["i2"].workflow_run_id
    /\ workflow_node_executions[2].workflow_run_id = task_state["i1"].workflow_run_id

====
